---------------------------- MODULE Spec2Model ----------------------------
(***************************************************************************)
(* Model of the sync backend of src/server.js: the key-value user store    *)
(* (getUser / setUser over the local map or the remote KV service), the    *)
(* handlers auth-register, auth-login, sync-load and sync-merge, and the    *)
(* merge of a client data bundle into the stored one (mergeLists, the      *)
(* study-log filter and the profile override).                             *)
(*                                                                         *)
(* JavaScript values are modelled by what the code does with them:         *)
(*   - an optional boolean flag is one of "undefined", "false", "true";    *)
(*   - updatedAt is a record [kind, ms]: absent, an unparsable string, or  *)
(*     a date with its epoch milliseconds;                                 *)
(*   - a profile is a record [kind, theme, updatedAt] whose kind is        *)
(*     "undefined", "null" or "object" (an object is always truthy);       *)
(*   - a list field of a bundle is an array (an absent one is read as []   *)
(*     by the code and is not told apart from the empty array here).       *)
(*                                                                         *)
(* Scheduling.  Under the local backend getUser and setUser await no I/O,  *)
(* so a handler runs from dispatch to response within one turn of the      *)
(* event loop: a request is one step.  Under the remote backend the KV GET *)
(* and the KV SET are network calls: a request that writes is two steps,   *)
(* the handler up to its SET and the return of the SET, and other requests *)
(* run in between.  The write of local_db.json (saveLocalDb) follows the   *)
(* map and never fails the request; the map is the store modelled.         *)
(***************************************************************************)
EXTENDS Integers, Sequences, FiniteSets, TLC

VARIABLES
    cloudData,   \* merge alone: the stored bundle handed to it (server.js:224)
    clientData,  \* merge alone: the client bundle handed to it (server.js:220)
    merged,      \* merge alone: the bundle it assembles (server.js:251-258)
    phase,       \* merge alone: "input" before it is applied, "merged" after;
                 \* "server" while the server runs
    backend,     \* "remote" when KV_URL and KV_TOKEN are set, else "local"
    store,       \* memoryStore, or the remote KV: key -> user record
    pending,     \* remote backend: per request slot, the put still in flight
    lastMerge,   \* history: per key, the client bundle of the merge that wrote
                 \* the record last (None after a registration)
    ev,          \* history: the step just taken, its request and its response
    taint,       \* history: what has happened in the run so far, "read-failed"
                 \* (a KV GET failed), "merges-overlapped" (a sync-merge
                 \* started while another one for the same user was in flight)
                 \* and "registers-overlapped" (the same for auth-register)
    nreq         \* requests received so far

vars ==
    <<cloudData, clientData, merged, phase, backend, store, pending, lastMerge, ev, taint,
      nreq>>
pureVars == <<cloudData, clientData, merged, phase>>
serverVars == <<backend, store, pending, lastMerge, ev, taint, nreq>>

----------------------------------------------------------------------------
(* Bounds *)

\* longest client list / client log drawn as an input
MaxLen == 2
\* dates are 1..MaxTime epoch milliseconds
MaxTime == 1

\* requests the server receives in one run
MaxRequests == 3

\* entity ids (Map keys of mergeLists)
Ids == {"e1", "e2"}

SeqsUpTo(S, n) == UNION {[1..k -> S] : k \in 0..n}

----------------------------------------------------------------------------
(* JavaScript value helpers *)

\* a || b on optional booleans: the first operand when truthy, else the second
JsOr(a, b) == IF a = "true" THEN a ELSE b

\* the result of getTime() on an invalid Date; every comparison with it is false
NaN == -1

\* updatedAt values
NoDate == [kind |-> "undefined", ms |-> 0]
BadDate == [kind |-> "invalid", ms |-> 0]
DateAt(n) == [kind |-> "date", ms |-> n]

\* new Date(x.updatedAt || 0).getTime()
GetTime(updatedAt) ==
    IF updatedAt.kind = "undefined" THEN 0
    ELSE IF updatedAt.kind = "date" THEN updatedAt.ms
    ELSE NaN

\* a >= b on numbers: false when either side is NaN
JsGeq(a, b) == a # NaN /\ b # NaN /\ a >= b

----------------------------------------------------------------------------
(* mergeLists (server.js:230-249): a Map from id to entity, kept as the     *)
(* sequence of its values in insertion order.                              *)

MapHas(map, id) == \E j \in DOMAIN map : map[j].id = id

MapGet(map, id) == map[CHOOSE j \in DOMAIN map : map[j].id = id]

\* Mutant: set() that always appends, also for a key the map holds
MapSetAppend(map, id, v) == Append(map, v)

\* Map.prototype.set: a new key is appended, an old key keeps its position
MapSet(map, id, v) ==
    IF MapHas(map, id)
    THEN [j \in DOMAIN map |-> IF map[j].id = id THEN v ELSE map[j]]
    ELSE Append(map, v)

\* Mutant: the deletion flag of the winner is kept as it is
MergeEntityNoOr(existing, i) ==
    IF JsGeq(GetTime(i.updatedAt), GetTime(existing.updatedAt)) THEN i ELSE existing

\* Mutant: the stored version wins a tie
MergeEntityStrict(existing, i) ==
    LET isDeleted == JsOr(i.isDeleted, existing.isDeleted)
        clientTime == GetTime(i.updatedAt)
        cloudTime == GetTime(existing.updatedAt)
        winner == IF JsGeq(clientTime, cloudTime) /\ clientTime # cloudTime
                  THEN i ELSE existing
    IN  [winner EXCEPT !.isDeleted = isDeleted]

\* Mutant: the client version always wins ("we assume client has latest")
MergeEntityClientWins(existing, i) ==
    LET isDeleted == JsOr(i.isDeleted, existing.isDeleted)
    IN  [i EXCEPT !.isDeleted = isDeleted]

\* server.js:239-243, the value stored for an id both sides have
MergeEntity(existing, i) ==
    LET isDeleted == JsOr(i.isDeleted, existing.isDeleted)
        clientTime == GetTime(i.updatedAt)
        cloudTime == GetTime(existing.updatedAt)
        winner == IF JsGeq(clientTime, cloudTime) THEN i ELSE existing
    IN  [winner EXCEPT !.isDeleted = isDeleted]

\* server.js:232
RECURSIVE SeedCloud(_, _)
SeedCloud(map, cloudList) ==
    IF cloudList = <<>> THEN map
    ELSE SeedCloud(MapSet(map, Head(cloudList).id, Head(cloudList)), Tail(cloudList))

\* server.js:233-247
RECURSIVE ApplyClient(_, _)
ApplyClient(map, clientList) ==
    IF clientList = <<>> THEN map
    ELSE LET i == Head(clientList)
         IN  ApplyClient(
                 IF MapHas(map, i.id)
                 THEN MapSet(map, i.id, MergeEntity(MapGet(map, i.id), i))
                 ELSE MapSet(map, i.id, i),
                 Tail(clientList))

\* Mutant: the two arrays are concatenated, without the Map
mergeListsConcat(cloudList, clientList) == cloudList \o clientList

\* Mutant: deleted entities are filtered out of the result
mergeListsDropDeleted(cloudList, clientList) ==
    SelectSeq(ApplyClient(SeedCloud(<<>>, cloudList), clientList),
              LAMBDA e : e.isDeleted # "true")

mergeLists(cloudList, clientList) == ApplyClient(SeedCloud(<<>>, cloudList), clientList)

----------------------------------------------------------------------------
(* studyHistory (server.js:254-255) and userProfile (server.js:256)         *)

SameLog(t, v) == t.cardId = v.cardId /\ t.date = v.date /\ t.rating = v.rating

\* a.findIndex(pred) for a pred that holds of a[i]
FindIndex(a, v) ==
    CHOOSE j \in DOMAIN a : SameLog(a[j], v) /\ \A k \in 1..(j - 1) : ~SameLog(a[k], v)

\* Mutant: the two logs are concatenated and nothing is filtered
mergeLogsConcat(cloudLog, clientLog) == cloudLog \o clientLog

\* a.filter((v, i, a) => a.findIndex(same triple) === i), from index j on
RECURSIVE KeepFirst(_, _)
KeepFirst(a, j) ==
    IF j > Len(a) THEN <<>>
    ELSE (IF FindIndex(a, a[j]) = j THEN <<a[j]>> ELSE <<>>) \o KeepFirst(a, j + 1)

\* [...cloud.studyHistory, ...client.studyHistory].filter(...)
mergeLogs(cloudLog, clientLog) == KeepFirst(cloudLog \o clientLog, 1)

\* userProfile values
NoProfile == [kind |-> "undefined", theme |-> "", updatedAt |-> 0]
NullProfile == [kind |-> "null", theme |-> "", updatedAt |-> 0]
Profile(theme, t) == [kind |-> "object", theme |-> theme, updatedAt |-> t]

Truthy(profile) == profile.kind = "object"

\* Mutant: the stored profile is preferred
resolveProfileCloudFirst(cloudProfile, clientProfile) ==
    IF Truthy(cloudProfile) THEN cloudProfile ELSE clientProfile

\* clientData.userProfile || cloudData.userProfile
resolveProfile(cloudProfile, clientProfile) ==
    IF Truthy(clientProfile) THEN clientProfile ELSE cloudProfile

\* server.js:251-258
mergeData(cloud, client) ==
    [decks |-> mergeLists(cloud.decks, client.decks),
     cards |-> mergeLists(cloud.cards, client.cards),
     studyHistory |-> mergeLogs(cloud.studyHistory, client.studyHistory),
     userProfile |-> resolveProfile(cloud.userProfile, client.userProfile),
     userAchievements |-> mergeLists(cloud.userAchievements, client.userAchievements)]

\* server.js:200, the bundle of a fresh user
EmptyData ==
    [decks |-> <<>>, cards |-> <<>>, studyHistory |-> <<>>,
     userProfile |-> NullProfile, userAchievements |-> <<>>]

----------------------------------------------------------------------------
(* Shapes of the data *)

Entity(id, updatedAt, isDeleted, field) ==
    [id |-> id, updatedAt |-> updatedAt, isDeleted |-> isDeleted, field |-> field]

Log(cardId, date, rating, note) ==
    [cardId |-> cardId, date |-> date, rating |-> rating, note |-> note]

IdsOf(list) == {list[j].id : j \in DOMAIN list}
VersionsOf(list, id) == {j \in DOMAIN list : list[j].id = id}
TheEntity(list, id) == list[CHOOSE j \in DOMAIN list : list[j].id = id]

ListFields == {"decks", "cards", "userAchievements"}
WithList(f, l) ==
    [decks |-> IF f = "decks" THEN l ELSE <<>>,
     cards |-> IF f = "cards" THEN l ELSE <<>>,
     studyHistory |-> <<>>,
     userProfile |-> NullProfile,
     userAchievements |-> IF f = "userAchievements" THEN l ELSE <<>>]

----------------------------------------------------------------------------
(* The store (server.js:119-187)                                            *)

Usernames == {"Amy", "amy", "bob"}
Passwords == {"p1", "p2"}
\* a payload without the field
NoUsername == "<undefined>"
NoPassword == "<undefined>"

\* String.prototype.toLowerCase on the usernames above
Lower(username) == IF username = "Amy" THEN "amy" ELSE username

\* Mutant: the key keeps the casing of the username
getUserKeyRaw(username) == "user:" \o username

\* server.js:121
getUserKey(username) == "user:" \o Lower(username)

\* request slots of the remote backend (requests in flight at once)
Procs == {1, 2}

\* An optional value is a sequence of length 0 (null / undefined) or 1.
None == <<>>
Some(x) == <<x>>

\* memoryStore.get(key) || null, or the result of the KV GET
Lookup(st, username) ==
    IF getUserKey(username) \in DOMAIN st THEN Some(st[getUserKey(username)]) ELSE None

\* Mutant: a missing user is replaced by a fresh record
getUserOrNew(st, username, readOk) ==
    IF backend = "remote" /\ ~readOk THEN None
    ELSE IF Lookup(st, username) = None
         THEN Some([username |-> username, password |-> NoPassword, data |-> EmptyData])
         ELSE Lookup(st, username)

\* server.js:147-168; readOk is FALSE when the KV GET answers not-ok or throws
getUser(st, username, readOk) ==
    IF backend = "remote" /\ ~readOk THEN None ELSE Lookup(st, username)

\* Map.prototype.set on a map kept as a function
SetKey(f, key, v) == [k \in DOMAIN f \cup {key} |-> IF k = key THEN v ELSE f[k]]

\* Mutant: setUser builds its key without lowercasing the username
PutRaw(st, userData) == SetKey(st, "user:" \o userData.username, userData)

\* memoryStore.set(key, userData), or the KV SET once it is applied
Put(st, userData) == SetKey(st, getUserKey(userData.username), userData)

\* history: the client bundle of the merge that wrote the record last
LastClient(username) ==
    IF getUserKey(username) \in DOMAIN lastMerge THEN lastMerge[getUserKey(username)] ELSE None

----------------------------------------------------------------------------
(* Requests and responses *)

\* the client bundles the server is sent
SyncLists ==
    {<<Entity("e1", NoDate, "true", "A")>>,
     <<Entity("e1", DateAt(1), "false", "B")>>,
     <<Entity("e2", NoDate, "undefined", "A")>>}

FullBundle ==
    [decks |-> <<Entity("e2", DateAt(1), "false", "B")>>,
     cards |-> <<Entity("e1", BadDate, "undefined", "card")>>,
     studyHistory |-> <<Log("a", "d1", 3, "C")>>,
     userProfile |-> Profile("dark", 1),
     userAchievements |-> <<Entity("e1", NoDate, "false", "ach")>>]

SyncBundles ==
    {[WithList("decks", l) EXCEPT !.userProfile = NoProfile] : l \in SyncLists}
    \cup {FullBundle}

\* the step just taken
Event(action, step, username, password, client, readOk, user, before, status, body, wrote) ==
    [action |-> action,       \* the action of the request
     step |-> step,           \* "handler": the request ran up to its response or
                              \* its put; "put": its put returned
     username |-> username, password |-> password, client |-> client,
     readOk |-> readOk,       \* the outcome of its KV GET
     user |-> user,           \* what getUser returned
     before |-> before,       \* at a put: the record stored just before it
     prev |-> IF wrote /\ action = "sync-merge" THEN LastClient(user[1].username) ELSE None,
                              \* at a merge's put: the bundle of the merge that
                              \* wrote the record last
     status |-> status,       \* the status of the response, 0 while the put is in flight
     body |-> body,           \* the data of the response
     wrote |-> wrote]         \* the step changed the store

NoEvent ==
    Event("none", "none", NoUsername, NoPassword, None, TRUE, None, None, 0, None, FALSE)

\* a put in flight: the request it belongs to, the record getUser returned and
\* the record handed to setUser
Pending(action, username, password, client, readOk, user, userData) ==
    [action |-> action, username |-> username, password |-> password,
     client |-> client, readOk |-> readOk, user |-> user, userData |-> userData]

ServerIdle ==
    /\ backend = "local"
    /\ store = <<>>
    /\ pending = [p \in Procs |-> None]
    /\ lastMerge = <<>>
    /\ ev = NoEvent
    /\ taint = {}
    /\ nreq = 0

PureIdle ==
    /\ cloudData = EmptyData
    /\ clientData = EmptyData
    /\ merged = EmptyData

\* the slot a request runs in (the free slots are alike: the lowest is taken),
\* and the outcome of its KV GET, which the local backend never fails
Accepts(p, readOk) ==
    /\ phase = "server"
    /\ nreq < MaxRequests
    /\ pending[p] = None
    /\ \A q \in Procs : pending[q] = None => p <= q
    /\ backend = "local" => readOk

\* history: what the handler step e adds to taint
Faults(e) ==
    (IF e.readOk THEN {} ELSE {"read-failed"})
    \cup (IF \E q \in Procs :
                 /\ pending[q] # None
                 /\ pending[q][1].action = e.action
                 /\ Lower(pending[q][1].username) = Lower(e.username)
           THEN {IF e.action = "sync-merge" THEN "merges-overlapped"
                                            ELSE "registers-overlapped"}
           ELSE {})

\* a response sent without a put
Respond(e) ==
    /\ ev' = e
    /\ taint' = taint \cup Faults(e)
    /\ nreq' = nreq + 1
    /\ UNCHANGED <<backend, store, pending, lastMerge>>
    /\ UNCHANGED pureVars

\* await setUser(userData) (server.js:170-187): the local map is set at once;
\* the remote SET stays in flight until KvSetReturns
SetUser(p, action, username, password, client, readOk, user, userData, status, body) ==
    /\ nreq' = nreq + 1
    /\ taint' = taint \cup Faults(Event(action, "handler", username, password, client, readOk,
                                         user, None, 0, None, FALSE))
    /\ UNCHANGED backend
    /\ UNCHANGED pureVars
    /\ IF backend = "local"
       THEN /\ store' = Put(store, userData)
            /\ lastMerge' = SetKey(lastMerge, getUserKey(userData.username), client)
            /\ ev' = Event(action, "handler", username, password, client, readOk, user,
                           Lookup(store, userData.username), status, body, TRUE)
            /\ UNCHANGED pending
       ELSE /\ pending' =
                   [pending EXCEPT
                       ![p] = Some(Pending(action, username, password, client, readOk,
                                           user, userData))]
            /\ ev' = Event(action, "handler", username, password, client, readOk, user,
                           None, 0, None, FALSE)
            /\ UNCHANGED <<store, lastMerge>>

\* server.js:190-204
handleRegister(p, username, password, readOk) ==
    /\ Accepts(p, readOk)
    /\ IF username = NoUsername \/ password = NoPassword
       THEN Respond(Event("auth-register", "handler", username, password, None, TRUE,
                          None, None, 400, None, FALSE))
       ELSE LET existingUser == getUser(store, username, readOk)
                newUser == [username |-> username, password |-> password, data |-> EmptyData]
            IN  IF existingUser # None
                THEN Respond(Event("auth-register", "handler", username, password, None,
                                   readOk, existingUser, None, 409, None, FALSE))
                ELSE SetUser(p, "auth-register", username, password, None, readOk, existingUser,
                             newUser, 201, None)

\* server.js:206-211; a payload without username throws in getUserKey and the
\* router answers 500 (server.js:294-297)
handleLogin(p, username, password, readOk) ==
    /\ Accepts(p, readOk)
    /\ IF username = NoUsername
       THEN Respond(Event("auth-login", "handler", username, password, None, TRUE,
                          None, None, 500, None, FALSE))
       ELSE LET user == getUser(store, username, readOk)
            IN  Respond(Event("auth-login", "handler", username, password, None, readOk,
                              user, None,
                              IF user = None \/ user[1].password # password THEN 401 ELSE 200,
                              None, FALSE))

\* server.js:213-217
handleSyncLoad(p, username, readOk) ==
    /\ Accepts(p, readOk)
    /\ IF username = NoUsername
       THEN Respond(Event("sync-load", "handler", username, NoPassword, None, TRUE,
                          None, None, 500, None, FALSE))
       ELSE LET user == getUser(store, username, readOk)
            IN  Respond(Event("sync-load", "handler", username, NoPassword, None, readOk,
                              user, None, 200,
                              IF user # None THEN Some(user[1].data) ELSE None, FALSE))

\* Mutant: the response carries the client's bundle, not the merged one
handleSyncMergeEcho(p, username, client, readOk) ==
    /\ Accepts(p, readOk)
    /\ IF username = NoUsername
       THEN Respond(Event("sync-merge", "handler", username, NoPassword, client, TRUE,
                          None, None, 500, None, FALSE))
       ELSE LET user == getUser(store, username, readOk)
            IN  IF user = None
                THEN Respond(Event("sync-merge", "handler", username, NoPassword, client,
                                   readOk, user, None, 404, None, FALSE))
                ELSE IF client = None
                THEN Respond(Event("sync-merge", "handler", username, NoPassword, client,
                                   readOk, user, None, 500, None, FALSE))
                ELSE LET data == mergeData(user[1].data, client[1])
                     IN  SetUser(p, "sync-merge", username, NoPassword, client, readOk, user,
                                 [user[1] EXCEPT !.data = data], 200, client)

\* server.js:219-262; client is None for a payload without data, which throws
\* at clientData.decks
handleSyncMerge(p, username, client, readOk) ==
    /\ Accepts(p, readOk)
    /\ IF username = NoUsername
       THEN Respond(Event("sync-merge", "handler", username, NoPassword, client, TRUE,
                          None, None, 500, None, FALSE))
       ELSE LET user == getUser(store, username, readOk)
            IN  IF user = None
                THEN Respond(Event("sync-merge", "handler", username, NoPassword, client,
                                   readOk, user, None, 404, None, FALSE))
                ELSE IF client = None
                THEN Respond(Event("sync-merge", "handler", username, NoPassword, client,
                                   readOk, user, None, 500, None, FALSE))
                ELSE LET data == mergeData(user[1].data, client[1])
                     IN  SetUser(p, "sync-merge", username, NoPassword, client, readOk, user,
                                 [user[1] EXCEPT !.data = data], 200, Some(data))

\* Mutant: a failed SET is swallowed like a failed save of local_db.json, and
\* the request is answered as if it had been stored
KvSetReturnsSwallow(p, ok) ==
    /\ phase = "server"
    /\ backend = "remote"
    /\ pending[p] # None
    /\ LET r == pending[p][1]
           cur == Lookup(store, r.userData.username)
           status == IF r.action = "sync-merge" THEN 200 ELSE 201
           body == IF r.action = "sync-merge" THEN Some(r.userData.data) ELSE None
       IN  /\ pending' = [pending EXCEPT ![p] = None]
           /\ IF ok
              THEN /\ store' = Put(store, r.userData)
                   /\ lastMerge' = SetKey(lastMerge, getUserKey(r.userData.username), r.client)
                   /\ ev' = Event(r.action, "put", r.username, r.password, r.client, r.readOk,
                                  r.user, cur, status, body, TRUE)
              ELSE /\ ev' = Event(r.action, "put", r.username, r.password, r.client, r.readOk,
                                  r.user, cur, status, body, FALSE)
                   /\ UNCHANGED <<store, lastMerge>>
    /\ UNCHANGED <<backend, taint, nreq>>
    /\ UNCHANGED pureVars

\* Mutant: a put whose snapshot is stale is merged into the record now stored
KvSetReturnsFresh(p, ok) ==
    /\ phase = "server"
    /\ backend = "remote"
    /\ pending[p] # None
    /\ LET r == pending[p][1]
           cur == Lookup(store, r.userData.username)
           userData == IF r.action = "sync-merge" /\ cur # None
                       THEN [cur[1] EXCEPT !.data = mergeData(cur[1].data, r.client[1])]
                       ELSE r.userData
       IN  /\ pending' = [pending EXCEPT ![p] = None]
           /\ IF ok
              THEN /\ store' = Put(store, userData)
                   /\ lastMerge' = SetKey(lastMerge, getUserKey(userData.username), r.client)
                   /\ ev' = Event(r.action, "put", r.username, r.password, r.client, r.readOk,
                                  r.user, cur,
                                  IF r.action = "sync-merge" THEN 200 ELSE 201,
                                  IF r.action = "sync-merge" THEN Some(userData.data) ELSE None,
                                  TRUE)
              ELSE /\ ev' = Event(r.action, "put", r.username, r.password, r.client, r.readOk,
                                  r.user, cur, 500, None, FALSE)
                   /\ UNCHANGED <<store, lastMerge>>
    /\ UNCHANGED <<backend, taint, nreq>>
    /\ UNCHANGED pureVars

\* remote backend, server.js:175-181 and the rest of the handler: the KV
\* applies the SET and answers ok, or answers not-ok and setUser throws, which
\* the router turns into 500 (server.js:294-297)
KvSetReturns(p, ok) ==
    /\ phase = "server"
    /\ backend = "remote"
    /\ pending[p] # None
    /\ LET r == pending[p][1]
           cur == Lookup(store, r.userData.username)
       IN  /\ pending' = [pending EXCEPT ![p] = None]
           /\ IF ok
              THEN /\ store' = Put(store, r.userData)
                   /\ lastMerge' = SetKey(lastMerge, getUserKey(r.userData.username), r.client)
                   /\ ev' = Event(r.action, "put", r.username, r.password, r.client, r.readOk,
                                  r.user, cur,
                                  IF r.action = "sync-merge" THEN 200 ELSE 201,
                                  IF r.action = "sync-merge" THEN Some(r.userData.data) ELSE None,
                                  TRUE)
              ELSE /\ ev' = Event(r.action, "put", r.username, r.password, r.client, r.readOk,
                                  r.user, cur, 500, None, FALSE)
                   /\ UNCHANGED <<store, lastMerge>>
    /\ UNCHANGED <<backend, taint, nreq>>
    /\ UNCHANGED pureVars

\* The store when the process starts: a new Map (server.js:124), nothing
\* loaded from local_db.json, and an empty remote KV.
InitStores == {<<>>}

Init ==
    /\ phase = "server"
    /\ PureIdle
    /\ backend \in {"local", "remote"}
    /\ store \in InitStores
    /\ pending = [p \in Procs |-> None]
    /\ lastMerge = <<>>
    /\ ev = NoEvent
    /\ taint = {}
    /\ nreq = 0

Register == \E p \in Procs, username \in Usernames \cup {NoUsername},
               password \in Passwords \cup {NoPassword}, readOk \in BOOLEAN :
                handleRegister(p, username, password, readOk)

Login == \E p \in Procs, username \in Usernames \cup {NoUsername},
            password \in Passwords, readOk \in BOOLEAN :
                handleLogin(p, username, password, readOk)

SyncLoad == \E p \in Procs, username \in Usernames \cup {NoUsername}, readOk \in BOOLEAN :
                handleSyncLoad(p, username, readOk)

SyncMerge == \E p \in Procs, username \in Usernames \cup {NoUsername},
                client \in {None} \cup {Some(b) : b \in SyncBundles}, readOk \in BOOLEAN :
                handleSyncMerge(p, username, client, readOk)

KvSet == \E p \in Procs, ok \in BOOLEAN : KvSetReturns(p, ok)

Next == Register \/ Login \/ SyncLoad \/ SyncMerge \/ KvSet

Spec == Init /\ [][Next]_vars

----------------------------------------------------------------------------
(* The server: claims about the handlers and the store *)

\* a record is stored for the username, in any casing
Registered(st, username) == \E k \in DOMAIN st : Lower(st[k].username) = Lower(username)

\* C1: when the record was last written by a sync-merge of a client bundle and
\* the next write to it is a sync-merge of the same bundle that read that
\* record, the second merge returns and stores the bundle the first one left.
C1_MergeIdempotent ==
    (/\ ev.action = "sync-merge"
     /\ ev.wrote
     /\ ev.prev = ev.client
     /\ ev.before = ev.user)
    => /\ ev.status = 200
       /\ ev.body = Some(ev.before[1].data)
       /\ Lookup(store, ev.username) = ev.before

\* C1 witness: the same bundle with decks, cards, a log entry and a profile was
\* merged twice in a row into one user.
C1_Witness ==
    /\ ev.action = "sync-merge"
    /\ ev.wrote
    /\ ev.prev = ev.client
    /\ ev.before = ev.user
    /\ ev.client = Some(FullBundle)
    /\ Len(ev.body[1].studyHistory) = 1
    /\ Len(ev.body[1].cards) = 1

\* C2: a sync-merge whose put succeeds responds 200 and leaves in the store
\* exactly the record it read with the data merged from that snapshot and its
\* own bundle, also when another merge wrote the record after the read: what
\* only the other merge contributed is gone.
C2_LastPutWins ==
    (ev.action = "sync-merge" /\ ev.wrote)
    => /\ ev.status = 200
       /\ Lookup(store, ev.username) =
              Some([ev.user[1] EXCEPT !.data = mergeData(ev.user[1].data, ev.client[1])])
       /\ ev.body = Some(mergeData(ev.user[1].data, ev.client[1]))
       /\ \A f \in ListFields :
              \A id \in IdsOf(ev.before[1].data[f]) :
                  id \notin IdsOf(ev.user[1].data[f]) \cup IdsOf(ev.client[1][f])
                      => id \notin IdsOf(Lookup(store, ev.username)[1].data[f])

\* C2 witness: two merges read the same record, the other one wrote an entity
\* first, and after this one's put the store no longer holds that entity.
C2_Witness ==
    /\ ev.action = "sync-merge"
    /\ ev.wrote
    /\ ev.status = 200
    /\ ev.prev # None
    /\ ev.before # ev.user
    /\ ev.before[1].data = mergeData(ev.user[1].data, ev.prev[1])
    /\ \E id \in IdsOf(ev.before[1].data.decks) :
          id \notin IdsOf(Lookup(store, ev.username)[1].data.decks)

\* C7: a sync-merge for a username without a stored record responds 404 and
\* writes nothing, a sync-load for such a username returns data null, and a
\* record comes into the store by auth-register only.
C7_MergeNeverCreates ==
    [][/\ (/\ ev'.action \in {"sync-merge", "sync-load"}
           /\ ev'.step = "handler"
           /\ ev'.username # NoUsername
           /\ ~Registered(store, ev'.username))
          => /\ ev'.status = IF ev'.action = "sync-merge" THEN 404 ELSE 200
             /\ ev'.body = None
             /\ store' = store
             /\ pending' = pending
       /\ \A k \in DOMAIN store' \ DOMAIN store : ev'.action = "auth-register"
      ]_vars

\* C7 witness: a sync-merge with a bundle was answered 404 for a username that
\* has no record while another user has one.
C7_Witness ==
    /\ ev.action = "sync-merge"
    /\ ev.status = 404
    /\ ev.client = Some(FullBundle)
    /\ ~Registered(store, ev.username)
    /\ store # <<>>

\* C8: an auth-register with username and password whose username equals, in
\* any casing, that of a stored record, and whose store read succeeds,
\* responds 409 and leaves the store as it is.
C8_DuplicateRegisterRejected ==
    [][(/\ ev'.action = "auth-register"
        /\ ev'.step = "handler"
        /\ ev'.username # NoUsername
        /\ ev'.password # NoPassword
        /\ ev'.readOk
        /\ Registered(store, ev'.username))
       => /\ ev'.status = 409
          /\ store' = store
          /\ pending' = pending
      ]_vars

\* C8 witness: a registration in another casing and with another password was
\* answered 409 after a merge had filled the record.
C8_Witness ==
    /\ ev.action = "auth-register"
    /\ ev.status = 409
    /\ ev.user # None
    /\ ev.user[1].username # ev.username
    /\ ev.user[1].password # ev.password
    /\ ev.user[1].data # EmptyData
    /\ Lookup(store, ev.username) = ev.user

\* what a step of C11 has to satisfy: the sync-loads are those of a record a
\* sync-merge wrote last, and whose store read succeeded, or whatever the
\* read did when anyRead is TRUE
MergeThenLoad(anyRead) ==
    /\ (ev'.action = "sync-merge" /\ ev'.status = 200)
       => /\ ev'.wrote
          /\ Registered(store', ev'.username)
          /\ ev'.body = Some(Lookup(store', ev'.username)[1].data)
    /\ (/\ ev'.action = "sync-load"
        /\ ev'.step = "handler"
        /\ ev'.username # NoUsername
        /\ Registered(store, ev'.username)
        /\ LastClient(Lookup(store, ev'.username)[1].username) # None
        /\ anyRead \/ ev'.readOk)
       => /\ ev'.status = 200
          /\ ev'.body = Some(Lookup(store, ev'.username)[1].data)
          /\ (/\ ev.action = "sync-merge"
              /\ ev.status = 200
              /\ Lower(ev.username) = Lower(ev'.username))
             => ev'.body = ev.body

\* C11 as stated: a sync-merge that responds 200 returns the bundle it wrote
\* to the store, and a sync-load for the same user with no write in between
\* returns exactly that bundle.
C11_MergePersistsWhatItReturns == [][MergeThenLoad(TRUE)]_vars

\* C11 amended: a sync-merge that responds 200 returns the bundle it wrote to
\* the store, and a sync-load for the same user whose store read succeeds,
\* with no write in between, returns exactly that bundle.
C11_MergePersistsLoadThatReads == [][MergeThenLoad(FALSE)]_vars

\* C11 witness: a sync-load that followed the merge of a full bundle returned
\* the bundle that merge stored.
C11_Witness ==
    /\ ev.action = "sync-load"
    /\ ev.readOk
    /\ ev.user # None
    /\ LastClient(ev.user[1].username) = Some(FullBundle)
    /\ ev.body = Some(mergeData(EmptyData, FullBundle))
    /\ ev.body = Some(Lookup(store, ev.username)[1].data)

\* C12: under the remote backend, when the put of an auth-register or of a
\* sync-merge is answered not-ok, the request responds 500, never 201 or 200,
\* the store is left as it was, and the request's slot is free again for the
\* requests that follow; 201 and 200 are answered only by a put that stored.
C12_FailedPutIs500 ==
    [][ev'.step = "put"
       => /\ backend = "remote"
          /\ ev'.action \in {"auth-register", "sync-merge"}
          /\ ev'.status \in {200, 201} => ev'.wrote
          /\ ~ev'.wrote
             => /\ ev'.status = 500
                /\ ev'.body = None
                /\ store' = store
          /\ \E p \in Procs :
                /\ pending[p] # None
                /\ pending' = [pending EXCEPT ![p] = None]
          /\ phase' = "server"
      ]_vars

\* C12 witness: the put of a merge of a full bundle failed, the request was
\* answered 500 and the record is the one the request had read.
C12_Witness ==
    /\ ev.step = "put"
    /\ ev.action = "sync-merge"
    /\ ev.client = Some(FullBundle)
    /\ ~ev.wrote
    /\ ev.status = 500
    /\ ev.user # None
    /\ Lookup(store, ev.username) = ev.user
    /\ \A p \in Procs : pending[p] = None

DeletedIn(list, id) == \E j \in DOMAIN list : list[j].id = id /\ list[j].isDeleted = "true"

\* C13: in a run where every store read has succeeded and no two sync-merges
\* for a user have overlapped, an id that the stored bundle holds with
\* isDeleted true in decks, cards or userAchievements is held with isDeleted
\* true in the same field by every later stored bundle.
C13_DeletionPermanent ==
    [][taint' \subseteq {"registers-overlapped"}
       => \A k \in DOMAIN store, f \in ListFields, id \in Ids :
              DeletedIn(store[k].data[f], id)
                  => /\ k \in DOMAIN store'
                     /\ DeletedIn(store'[k].data[f], id)
      ]_vars

\* C14: among the auth-register requests whose usernames are equal ignoring
\* case at most one responds 201, also when two of them overlap: a
\* registration that responds 201 stored its fresh record where no record of
\* that username was, so it replaced no record an earlier registration had
\* created.  (Records are never removed, so a second 201 is a 201 over an
\* existing record; the runs looked at are already those in which every
\* store read succeeded.)
C14_RegistrationExclusive ==
    (/\ "read-failed" \notin taint
     /\ ev.action = "auth-register"
     /\ ev.status = 201)
    => /\ ev.wrote
       /\ ev.before = None

\* C15: under the remote backend a request whose store read failed behaves
\* as if no record existed, auth-login responding 401, sync-load 200 with
\* data null and sync-merge 404, and no step of such a request modifies or
\* replaces a record that is in the store.  (The runs looked at are already
\* those in which no two registrations of a user overlapped.)
C15_FailedReadHarmless ==
    [][(~ev'.readOk /\ "registers-overlapped" \notin taint')
       => /\ backend = "remote"
          /\ ev'.user = None
          /\ ev'.action = "auth-login" => ev'.status = 401
          /\ ev'.action = "sync-load" => ev'.status = 200 /\ ev'.body = None
          /\ ev'.action = "sync-merge" => ev'.status = 404 /\ ev'.body = None
          /\ \A k \in DOMAIN store : k \in DOMAIN store' /\ store'[k] = store[k]
      ]_vars

\* C16: auth-login, sync-load, a rejected auth-register and a rejected
\* sync-merge leave the whole store as it was; a successful sync-merge changes
\* only the data of the record of the user it addresses, whose username and
\* password stay, as does every other record; no step removes a record.
\* (The runs looked at are already those in which every store read succeeded.)
C16_Frame ==
    []["read-failed" \notin taint' =>
       /\ (\/ ev'.action \in {"auth-login", "sync-load"}
           \/ /\ ev'.action \in {"auth-register", "sync-merge"}
              /\ ev'.status \notin {200, 201})
          => store' = store
       /\ (ev'.action = "sync-merge" /\ ev'.status = 200)
          => /\ DOMAIN store' = DOMAIN store
             /\ \A k \in DOMAIN store :
                    IF Lower(store[k].username) = Lower(ev'.username)
                    THEN /\ store'[k].username = store[k].username
                         /\ store'[k].password = store[k].password
                    ELSE store'[k] = store[k]
       /\ DOMAIN store \subseteq DOMAIN store'
      ]_vars

\* the stored record of a registered username, in any casing
RecordOf(st, username) ==
    st[CHOOSE k \in DOMAIN st : Lower(st[k].username) = Lower(username)]

Max(a, b) == IF a >= b THEN a ELSE b

C19_KeysNormalized ==
    [][/\ \A k \in DOMAIN store' : k = "user:" \o Lower(store'[k].username)
       /\ \A k, l \in DOMAIN store' :
              Lower(store'[k].username) = Lower(store'[l].username) => k = l
       /\ (/\ ev'.action \in {"auth-login", "sync-load", "sync-merge"}
           /\ ev'.step = "handler"
           /\ ev'.username # NoUsername
           /\ Registered(store, ev'.username))
          => /\ ev'.user \in {None, Some(RecordOf(store, ev'.username))}
             /\ ev'.readOk => ev'.user # None
       /\ (ev'.action = "sync-merge" /\ ev'.wrote)
          => /\ DOMAIN store' = DOMAIN store
             /\ \A k \in DOMAIN store :
                    store'[k] # store[k] => k = "user:" \o Lower(ev'.username)
             /\ RecordOf(store', ev'.username).data = ev'.body[1]
      ]_vars

\* C19 witness: a user registered as "Amy" was merged into as "amy", and the
\* one record, still named "Amy", holds the merged bundle.
C19_Witness ==
    /\ ev.action = "sync-merge"
    /\ ev.wrote
    /\ ev.username = "amy"
    /\ ev.user # None
    /\ ev.user[1].username = "Amy"
    /\ DOMAIN store = {"user:amy"}
    /\ store["user:amy"].username = "Amy"
    /\ store["user:amy"].data = ev.body[1]
    /\ store["user:amy"].data # EmptyData

----------------------------------------------------------------------------
(* Inputs of the merge taken alone *)

Flags == {"undefined", "false", "true"}
Dates == {NoDate, BadDate} \cup {DateAt(n) : n \in 1..MaxTime}

\* "field" stands for the caller's own fields, opaque to the merge: "S" on
\* the stored side, "C" on the client side.  Id e1 takes every date and flag;
\* e2 is the bystander that makes lists of two ids.
EntitiesOf(field) ==
    [id : {"e1"}, updatedAt : Dates, isDeleted : Flags, field : {field}]
    \cup {Entity("e2", NoDate, "undefined", field), Entity("e2", DateAt(1), "true", field)}

UniqueIds(list) == \A j, k \in DOMAIN list : j # k => list[j].id # list[k].id

\* a stored list is an output of mergeLists: its ids are unique
CloudLists == {l \in SeqsUpTo(EntitiesOf("S"), Cardinality(Ids)) : UniqueIds(l)}
\* a client list is whatever the request holds, repeated ids included
ClientLists == SeqsUpTo(EntitiesOf("C"), MaxLen)

\* every two of these triples differ, some in one component only
LogsOf(note) ==
    {Log("a", "d1", 3, note), Log("b", "d1", 3, note),
     Log("a", "d2", 3, note), Log("a", "d1", 5, note)}

UniqueLogs(log) == \A j, k \in DOMAIN log : j # k => ~SameLog(log[j], log[k])

\* a stored log is an output of the filter: its triples are unique
CloudLogs == {l \in SeqsUpTo(LogsOf("S"), MaxLen) : UniqueLogs(l)}
ClientLogs == SeqsUpTo(LogsOf("C"), MaxLen)

Themes == {"dark", "light"}
ProfileObjects == {Profile(th, t) : th \in Themes, t \in 0..MaxTime}
\* a stored profile is never undefined: it starts null (server.js:200)
CloudProfiles == {NullProfile} \cup ProfileObjects
ClientProfiles == {NoProfile, NullProfile} \cup ProfileObjects

PureInit ==
    /\ phase = "input"
    /\ merged = EmptyData
    /\ ServerIdle
    /\ \/ \E f \in ListFields, cl \in CloudLists, li \in ClientLists :
             /\ f # "decks" => Len(cl) <= 1 /\ Len(li) <= 1
             /\ cloudData = WithList(f, cl)
             /\ clientData = WithList(f, li)
       \/ \E cl \in CloudLogs, li \in ClientLogs :
             /\ cloudData = [EmptyData EXCEPT !.studyHistory = cl]
             /\ clientData = [EmptyData EXCEPT !.studyHistory = li]
       \/ \E cp \in CloudProfiles, lp \in ClientProfiles :
             /\ cloudData = [EmptyData EXCEPT !.userProfile = cp]
             /\ clientData = [EmptyData EXCEPT !.userProfile = lp]

\* server.js:251-258 applied to the inputs
MergeStep ==
    /\ phase = "input"
    /\ merged' = mergeData(cloudData, clientData)
    /\ phase' = "merged"
    /\ UNCHANGED <<cloudData, clientData>>
    /\ UNCHANGED serverVars

PureNext == MergeStep

PureSpec == PureInit /\ [][PureNext]_vars

----------------------------------------------------------------------------
(* The merge taken alone: claims about mergeLists, the log filter and the   *)
(* profile override, read off the inputs and the assembled bundle.         *)

\* the entity of a list with unique ids that carries the id
\* ids both sides have, the client exactly once
SharedOnce(cl, li) ==
    {id \in IdsOf(cl) \cap IdsOf(li) : Cardinality(VersionsOf(li, id)) = 1}

Merged == phase = "merged"

\* C3: for an id that occurs in the stored and in the client list, the output
\* entity is deleted whenever a stored or a client version of the id is
\* deleted, whichever version wins on updatedAt.
C3_SoftDeleteMonotone ==
    Merged =>
        \A f \in ListFields :
            LET cl == cloudData[f]
                li == clientData[f]
                out == merged[f]
            IN  \A id \in IdsOf(cl) \cap IdsOf(li) :
                    (\/ \E j \in VersionsOf(cl, id) : cl[j].isDeleted = "true"
                     \/ \E j \in VersionsOf(li, id) : li[j].isDeleted = "true")
                    => /\ VersionsOf(out, id) # {}
                       /\ \A j \in VersionsOf(out, id) : out[j].isDeleted = "true"

\* C3 witness: the stored version is deleted, the client version is newer and
\* not deleted, and the output carries the client's fields with the flag set.
C3_Witness ==
    /\ Merged
    /\ \E id \in SharedOnce(cloudData.decks, clientData.decks) :
          LET s == TheEntity(cloudData.decks, id)
              c == TheEntity(clientData.decks, id)
              o == TheEntity(merged.decks, id)
          IN  /\ s.isDeleted = "true"
              /\ c.isDeleted = "false"
              /\ GetTime(c.updatedAt) > GetTime(s.updatedAt)
              /\ GetTime(s.updatedAt) # NaN
              /\ o.field = "C"
              /\ o.isDeleted = "true"

\* C4: the ids of the output of mergeLists are the ids of the stored list
\* together with the ids of the client list, each exactly once.
C4_IdCoverage ==
    Merged =>
        \A f \in ListFields :
            /\ IdsOf(merged[f]) = IdsOf(cloudData[f]) \cup IdsOf(clientData[f])
            /\ UniqueIds(merged[f])

\* C4 witness: the client list repeats an id the stored list holds, the
\* stored list holds another id as well, and the output has the two ids.
C4_Witness ==
    /\ Merged
    /\ Len(cloudData.decks) = 2
    /\ Len(clientData.decks) = 2
    /\ clientData.decks[1].id = clientData.decks[2].id
    /\ Len(merged.decks) = 2

\* C17: for a stored and a client list with unique ids each, an entity whose
\* id occurs in one of the two lists only is in the output with every field
\* as it was, isDeleted included; a deleted one is not left out.
C17_OneSidedVerbatim ==
    Merged =>
        \A f \in ListFields :
            LET cl == cloudData[f]
                li == clientData[f]
                out == merged[f]
            IN  (UniqueIds(cl) /\ UniqueIds(li))
                => /\ \A id \in IdsOf(cl) \ IdsOf(li) :
                          /\ VersionsOf(out, id) # {}
                          /\ TheEntity(out, id) = TheEntity(cl, id)
                   /\ \A id \in IdsOf(li) \ IdsOf(cl) :
                          /\ VersionsOf(out, id) # {}
                          /\ TheEntity(out, id) = TheEntity(li, id)

\* C17 witness: a deleted entity only the stored list holds and a deleted
\* entity only the client list holds are both in the output as they were.
C17_Witness ==
    /\ Merged
    /\ Len(cloudData.decks) = 1
    /\ Len(clientData.decks) = 1
    /\ cloudData.decks[1].id # clientData.decks[1].id
    /\ cloudData.decks[1].isDeleted = "true"
    /\ clientData.decks[1].isDeleted = "true"
    /\ merged.decks = cloudData.decks \o clientData.decks

\* the non-flag fields of two entities agree
SameFields(a, b) == a.id = b.id /\ a.updatedAt = b.updatedAt /\ a.field = b.field

SpecTime(updatedAt) == IF updatedAt.kind = "date" THEN updatedAt.ms ELSE 0

\* C6: a version whose updatedAt is absent or unparsable is compared as epoch
\* 0 on both sides: against a stored version with absent or unparsable
\* updatedAt the client version wins whenever its own time is >= 0.
C6_AbsentOrUnparsableIsEpoch ==
    Merged =>
        \A f \in ListFields :
            \A id \in SharedOnce(cloudData[f], clientData[f]) :
                LET s == TheEntity(cloudData[f], id)
                    c == TheEntity(clientData[f], id)
                IN  (s.updatedAt.kind # "date" /\ SpecTime(c.updatedAt) >= 0)
                        => SameFields(TheEntity(merged[f], id), c)

\* the entries of a that no earlier entry of a shares its triple with
FirstIndexes(a) == {j \in DOMAIN a : \A k \in 1..(j - 1) : ~SameLog(a[k], a[j])}

\* C9: the merged studyHistory is the stored log followed by the client log
\* without the entries whose (cardId, date, rating) occurred earlier: no two
\* entries share a triple, every triple of an input occurs, and the entry
\* kept for a triple is its first occurrence.
C9_LogMerge ==
    Merged =>
        LET a == cloudData.studyHistory \o clientData.studyHistory
            out == merged.studyHistory
        IN  /\ UniqueLogs(out)
            /\ \A j \in DOMAIN a : \E n \in DOMAIN out : SameLog(out[n], a[j])
            /\ Len(out) = Cardinality(FirstIndexes(a))
            /\ \A n \in DOMAIN out :
                  \E j \in FirstIndexes(a) :
                      /\ out[n] = a[j]
                      /\ Cardinality({k \in FirstIndexes(a) : k < j}) = n - 1

\* C9 witness: the stored log holds one entry, the client log holds an entry
\* of the same triple and a new one, and the result has two entries, the
\* stored one first.
C9_Witness ==
    /\ Merged
    /\ Len(cloudData.studyHistory) = 1
    /\ Len(clientData.studyHistory) = 2
    /\ SameLog(clientData.studyHistory[1], cloudData.studyHistory[1])
    /\ ~SameLog(clientData.studyHistory[2], cloudData.studyHistory[1])
    /\ Len(merged.studyHistory) = 2
    /\ merged.studyHistory[1].note = "S"

\* C10: the merged userProfile is the client's whenever the client supplies
\* one (neither null nor absent), whatever the timestamps, and the stored one
\* otherwise; a stored profile is never replaced by absence.
C10_ProfileResolution ==
    Merged =>
        /\ clientData.userProfile.kind = "object"
               => merged.userProfile = clientData.userProfile
        /\ clientData.userProfile.kind # "object"
               => merged.userProfile = cloudData.userProfile
        /\ cloudData.userProfile.kind = "object" => merged.userProfile.kind = "object"

\* C10 witness: the stored profile is newer than the client's and the merged
\* profile is the client's.
C10_Witness ==
    /\ Merged
    /\ cloudData.userProfile.kind = "object"
    /\ clientData.userProfile.kind = "object"
    /\ cloudData.userProfile.updatedAt > clientData.userProfile.updatedAt
    /\ cloudData.userProfile.theme # clientData.userProfile.theme
    /\ merged.userProfile = clientData.userProfile

=============================================================================
